---- MODULE Spec2Model ----
\* NovelDownloader (src/main.py): the retrying fetcher, the chapter loop of
\* run(), the growing EPUB document and the temp/output files on disk.
EXTENDS Integers, Sequences, FiniteSets, TLC

\* ---------------------------------------------------------------- bounds
\* Number of chapter pages with real content the site can serve in one run.
MaxFetched == 5
\* start_chapter is drawn from 1..MaxStart.
MaxStart == 2
\* max_chapters is drawn from 0..MaxCap (0 = unbounded).
MaxCap == 2

\* ------------------------------------------------------ program constants
SAVE_INTERVAL == 5
DEFAULT_MAX_RETRIES == 5
CHAPTER_MAX_RETRIES == 10
DEFAULT_INITIAL_DELAY == 3
CHAPTER_INITIAL_DELAY == 10
BACKOFF_FACTOR == 2

\* ------------------------------------------------------------- the world
\* What an attempt can end with: a returned status (403 stands for the 4xx
\* and 500 for the 5xx that are retried), or "exc", a RequestException
\* (timeout, connection error, other transport failure).
Statuses == {"200", "404", "403", "500", "exc"}

\* Shapes of a chapter page, as far as download_chapter looks at it:
\*   no_txt          no <div class="txt">
\*   txt_no_article  <div class="txt"> present, no <div id="article">
\*   marker          both present, article text is the missing-content marker
\*   content         both present, ordinary chapter text
ChapterPages == {"no_txt", "txt_no_article", "marker", "content"}

\* Shapes of the overview page: with or without a title element, with or
\* without a cover image.
OverviewPages == {"title_cover", "title", "cover", "bare"}
HasTitle(page) == page \in {"title_cover", "title"}
HasCover(page) == page \in {"title_cover", "cover"}

\* Entries of book.items / book.toc / book.spine.
Nav == [kind |-> "nav", num |-> 0]
Ncx == [kind |-> "ncx", num |-> 0]
Desc == [kind |-> "desc", num |-> 0]
Chapter(n) == [kind |-> "chapter", num |-> n]

\* Files on disk.
Absent == [state |-> "absent", chapters |-> << >>, nav |-> FALSE]
OldFile == [state |-> "old", chapters |-> << >>, nav |-> FALSE]
PartialFile == [state |-> "partial", chapters |-> << >>, nav |-> FALSE]

VARIABLES
    pc,              \* position of run()
    start_chapter,   \* self.start_chapter
    max_chapters,    \* self.max_chapters
    should_stop,     \* self.should_stop
    metadata,        \* self.metadata: the keys title and cover_url
    book,            \* the EpubBook: title, cover, items, toc, spine
    chapter_count,   \* run(): chapter_count
    current_chapter, \* run(): current_chapter
    sr,              \* the safe_request call in progress, until its caller
                     \* has used the result
    output_file,     \* the file at self.output_file
    temp_file,       \* the file at self.temp_file
    run_log,         \* what run() did: counters and outcomes
    content          \* the chapter body given to _process_chapter_content

vars == <<pc, start_chapter, max_chapters, should_stop, metadata, book,
          chapter_count, current_chapter, sr, output_file, temp_file, run_log,
          content>>

\* No chapter body is being processed.
NoContent == [nodes |-> << >>, stage |-> "none", once |-> << >>, raw |-> << >>]

\* No safe_request call in progress: its locals and its result are gone.
NoCall ==
    [caller |-> "none", chapter |-> 0, referer |-> 0,
     max_retries |-> 0, initial_delay |-> 0, attempt |-> 0,
     current_delay |-> 0, requests |-> 0, sleeps |-> 0, last_sleep |-> 0,
     last_status |-> "none", last_event |-> "none",
     result |-> "pending", page |-> "none"]

\* self.metadata = {} (line 65): no key is present.
EmptyMetadata == [fetched |-> FALSE, title |-> "missing", cover_url |-> FALSE]

EmptyBook ==
    [title |-> "unset", cover |-> FALSE, items |-> << >>, toc |-> << >>,
     spine |-> << >>]

\* __init__ (lines 45-67) and the state of the disk before the run.
Init ==
    /\ pc = "fetch_metadata"
    /\ start_chapter \in 1..MaxStart
    /\ max_chapters \in 0..MaxCap
    /\ should_stop = FALSE
    /\ metadata = EmptyMetadata
    /\ book = EmptyBook
    /\ chapter_count = 0
    /\ current_chapter = 0
    /\ sr = NoCall
    /\ output_file \in {Absent, OldFile}
    /\ temp_file = Absent
    /\ run_log = [finalize_calls |-> 0, finalize_result |-> "none",
                  finalize_failed_at |-> "none", save_calls |-> 0,
                  exit_path |-> "none", raising |-> FALSE,
                  had_output |-> FALSE, downloads |-> 0,
                  late_downloads |-> 0, temp_at_return |-> Absent,
                  output_at_start |-> output_file, none_cause |-> "none",
                  checkpoints |-> << >>, final_saves |-> 0]
    /\ content = NoContent

\* ------------------------------------------------------------ safe_request
\* Entry of safe_request (lines 105-111): attempt = 0, current_delay =
\* initial_delay; ref is the chapter whose URL is sent as Referer (0: none).
safe_request_entry(caller, chapter, ref, retries, delay) ==
    [caller |-> caller, chapter |-> chapter, referer |-> ref,
     max_retries |-> retries, initial_delay |-> delay, attempt |-> 0,
     current_delay |-> delay, requests |-> 0, sleeps |-> 0, last_sleep |-> 0,
     last_status |-> "none", last_event |-> "none",
     result |-> "pending", page |-> "none"]

\* Where the caller continues once safe_request has returned.
ReturnPc(caller) ==
    CASE caller = "metadata" -> "metadata_parse"
      [] caller = "cover" -> "cover_done"
      [] caller = "chapter" -> "chapter_parse"

\* The loop condition of safe_request (line 113).
safe_request_continues(attempt, max_retries) == attempt <= max_retries

\* Variant of safe_request_returns that retries a 404 like any other error.
safe_request_returns_only_200(status) == status = "200"

\* The statuses on which safe_request returns the response (lines 125-131).
safe_request_returns(status) == status \in {"200", "404"}

\* The pages a server may send for the call in progress.
PagesFor(caller) ==
    CASE caller = "metadata" -> OverviewPages
      [] caller = "cover" -> {"image", "not_image"}
      [] caller = "chapter" ->
           IF chapter_count < MaxFetched THEN ChapterPages
           ELSE ChapterPages \ {"content"}

\* One turn of the while loop up to the end of the try block (lines
\* 113-153): the loop test, attempt += 1, the request and its classification.
safe_request_attempt ==
    /\ pc = "safe_request"
    /\ safe_request_continues(sr.attempt, sr.max_retries)
    /\ \E status \in Statuses : \E page \in PagesFor(sr.caller) :
         IF safe_request_returns(status)
         THEN /\ sr' = [sr EXCEPT !.attempt = @ + 1, !.requests = @ + 1,
                                  !.last_status = status,
                                  !.last_event = "request",
                                  !.result = "response", !.page = page]
              /\ pc' = ReturnPc(sr.caller)
         ELSE /\ sr' = [sr EXCEPT !.attempt = @ + 1, !.requests = @ + 1,
                                  !.last_status = status,
                                  !.last_event = "request"]
              /\ pc' = "safe_request_backoff"
    /\ UNCHANGED <<start_chapter, max_chapters, should_stop, metadata, book,
                   chapter_count, current_chapter, output_file, temp_file,
                   run_log>>
    /\ UNCHANGED content

\* Whether a backoff sleep follows the failed attempt (line 155).
safe_request_sleeps(attempt, max_retries) == attempt < max_retries

\* The jitter values considered (tenths of a second): the ends of
\* 0.1 * current_delay * random.random(), random() in [0, 1).
Jitters(delay) == {0, delay - 1}

\* Variant of safe_request_backoff that never multiplies the delay.
safe_request_backoff_fixed_delay ==
    /\ pc = "safe_request_backoff"
    /\ IF safe_request_sleeps(sr.attempt, sr.max_retries)
       THEN \E jitter \in Jitters(sr.current_delay) :
              sr' = [sr EXCEPT !.sleeps = @ + 1,
                               !.last_sleep = 10 * sr.current_delay + jitter,
                               !.last_event = "sleep"]
       ELSE sr' = sr
    /\ pc' = "safe_request"
    /\ UNCHANGED <<start_chapter, max_chapters, should_stop, metadata, book,
                   chapter_count, current_chapter, output_file, temp_file,
                   run_log>>
    /\ UNCHANGED content

\* The end of one turn after a failed attempt (lines 155-164): sleep
\* current_delay + jitter and multiply the delay, or log exhaustion.
\* last_sleep is in tenths of a second.
safe_request_backoff ==
    /\ pc = "safe_request_backoff"
    /\ IF safe_request_sleeps(sr.attempt, sr.max_retries)
       THEN \E jitter \in Jitters(sr.current_delay) :
              sr' = [sr EXCEPT !.sleeps = @ + 1,
                               !.last_sleep = 10 * sr.current_delay + jitter,
                               !.last_event = "sleep",
                               !.current_delay = @ * BACKOFF_FACTOR]
       ELSE sr' = sr
    /\ pc' = "safe_request"
    /\ UNCHANGED <<start_chapter, max_chapters, should_stop, metadata, book,
                   chapter_count, current_chapter, output_file, temp_file,
                   run_log>>
    /\ UNCHANGED content

\* The loop has ended without a response: return None (line 166).
safe_request_exhausted ==
    /\ pc = "safe_request"
    /\ ~safe_request_continues(sr.attempt, sr.max_retries)
    /\ sr' = [sr EXCEPT !.result = "None"]
    /\ pc' = ReturnPc(sr.caller)
    /\ UNCHANGED <<start_chapter, max_chapters, should_stop, metadata, book,
                   chapter_count, current_chapter, output_file, temp_file,
                   run_log>>
    /\ UNCHANGED content

\* -------------------------------------------------------------- signals
\* _handle_exit_signal (lines 74-77): runs between any two steps of run().
handle_exit_signal ==
    /\ pc \notin {"aborted", "done", "raised"}
    /\ ~should_stop
    /\ should_stop' = TRUE
    /\ UNCHANGED <<pc, start_chapter, max_chapters, metadata, book,
                   chapter_count, current_chapter, sr, output_file, temp_file,
                   run_log>>
    /\ UNCHANGED content

\* ---------------------------------------------------------------- metadata
\* run() line 390 entering fetch_metadata (lines 170-172): the request for
\* the overview page, with the default retry policy.
fetch_metadata_request ==
    /\ pc = "fetch_metadata"
    /\ sr' = safe_request_entry("metadata", 0, 0, DEFAULT_MAX_RETRIES,
                                DEFAULT_INITIAL_DELAY)
    /\ pc' = "safe_request"
    /\ UNCHANGED <<start_chapter, max_chapters, should_stop, metadata, book,
                   chapter_count, current_chapter, output_file, temp_file,
                   run_log>>
    /\ UNCHANGED content

\* _get_text for the title (lines 188, 205-208): the text or None.
get_text_title(page) == IF HasTitle(page) THEN "page" ELSE "None"

\* Variant of fetch_metadata_parse whose failure path runs the finally
\* block of run(), as if the metadata fetch were inside the try.
fetch_metadata_parse_finalizes ==
    /\ pc = "metadata_parse"
    /\ IF sr.result = "None"
       THEN /\ pc' = "final_save"
            /\ UNCHANGED metadata
       ELSE /\ metadata' = [fetched |-> TRUE,
                            title |-> get_text_title(sr.page),
                            cover_url |-> HasCover(sr.page)]
            /\ pc' = "create_epub"
    /\ sr' = NoCall
    /\ UNCHANGED <<start_chapter, max_chapters, should_stop, book,
                   chapter_count, current_chapter, output_file, temp_file,
                   run_log>>
    /\ UNCHANGED content

\* The rest of fetch_metadata (lines 173-203) and the test of run() on its
\* result (lines 390-392): None aborts the run, the dict is always truthy.
fetch_metadata_parse ==
    /\ pc = "metadata_parse"
    /\ IF sr.result = "None"
       THEN /\ pc' = "aborted"
            /\ UNCHANGED metadata
       ELSE /\ metadata' = [fetched |-> TRUE,
                            title |-> get_text_title(sr.page),
                            cover_url |-> HasCover(sr.page)]
            /\ pc' = "create_epub"
    /\ sr' = NoCall
    /\ UNCHANGED <<start_chapter, max_chapters, should_stop, book,
                   chapter_count, current_chapter, output_file, temp_file,
                   run_log>>
    /\ UNCHANGED content

\* self.metadata.get('title', <slug title>) (line 222): the default is used
\* only when the key is absent; a key holding None yields None.
metadata_get_title(md) == IF md.title = "missing" THEN "slug" ELSE md.title

\* _create_epub (lines 215-238): title and, when there is a cover URL, the
\* request for the cover (line 243).
create_epub ==
    /\ pc = "create_epub"
    /\ book' = [book EXCEPT !.title = metadata_get_title(metadata)]
    /\ IF metadata.cover_url
       THEN /\ sr' = safe_request_entry("cover", 0, 0, DEFAULT_MAX_RETRIES,
                                        DEFAULT_INITIAL_DELAY)
            /\ pc' = "safe_request"
       ELSE /\ pc' = "build_shell"
            /\ UNCHANGED sr
    /\ UNCHANGED <<start_chapter, max_chapters, should_stop, metadata,
                   chapter_count, current_chapter, output_file, temp_file,
                   run_log>>
    /\ UNCHANGED content

\* The rest of _add_cover (lines 244-255): the cover is set only from a
\* response whose content type is an image.
add_cover_done ==
    /\ pc = "cover_done"
    /\ book' = [book EXCEPT !.cover = (sr.result = "response"
                                       /\ sr.page = "image")]
    /\ pc' = "build_shell"
    /\ sr' = NoCall
    /\ UNCHANGED <<start_chapter, max_chapters, should_stop, metadata,
                   chapter_count, current_chapter, output_file, temp_file,
                   run_log>>
    /\ UNCHANGED content

\* run() lines 396-407: toc, spine, the description page, the counters.
run_build_shell ==
    /\ pc = "build_shell"
    /\ book' = [book EXCEPT !.items = <<Desc>>, !.toc = <<Desc>>,
                            !.spine = <<Nav, Desc>>]
    /\ chapter_count' = 0
    /\ current_chapter' = start_chapter
    /\ pc' = "loop_test"
    /\ UNCHANGED <<start_chapter, max_chapters, should_stop, metadata, sr,
                   output_file, temp_file, run_log>>
    /\ UNCHANGED content

\* ------------------------------------------------------------ persistence
\* The chapter numbers of the spine, in spine order.
RECURSIVE ChapterNums(_)
ChapterNums(seq) ==
    IF seq = << >> THEN << >>
    ELSE IF Head(seq).kind = "chapter"
         THEN <<Head(seq).num>> \o ChapterNums(Tail(seq))
         ELSE ChapterNums(Tail(seq))

\* The file a successful epub.write_epub produces from the book.
Serialized(b) ==
    [state |-> "doc", chapters |-> ChapterNums(b.spine),
     nav |-> (\E i \in 1..Len(b.items) : b.items[i] = Nav)]

\* epub.write_epub(self.temp_file, book, {}) (lines 359, 372): it writes the
\* whole document, or raises having left the file as it was (failure before
\* the file is opened) or truncated (failure while writing).
write_epub(file, b) ==
    {[raised |-> FALSE, file |-> Serialized(b)],
     [raised |-> TRUE, file |-> file],
     [raised |-> TRUE, file |-> PartialFile]}

\* ------------------------------------------------------------ chapter loop
\* Variant of run_loop_continues that does not look at the stop flag.
run_loop_continues_ignores_stop ==
    max_chapters = 0 \/ chapter_count < max_chapters

\* The loop condition (line 410); leaving the loop enters the finally block.
run_loop_continues ==
    ~should_stop /\ (max_chapters = 0 \/ chapter_count < max_chapters)

run_loop_test ==
    /\ pc = "loop_test"
    /\ IF run_loop_continues
       THEN /\ pc' = "call_download"
            /\ UNCHANGED run_log
       ELSE /\ pc' = "final_save"
            /\ run_log' = [run_log EXCEPT !.exit_path =
                              IF should_stop THEN "stop" ELSE "cap"]
    /\ UNCHANGED <<start_chapter, max_chapters, should_stop, metadata, book,
                   chapter_count, current_chapter, sr, output_file, temp_file>>
    /\ UNCHANGED content

\* Variant of chapter_referer that omits the Referer for the first chapter
\* of the run instead of chapter 1.
chapter_referer_from_start(chapter_num) ==
    IF chapter_num > start_chapter THEN chapter_num - 1 ELSE 0

\* The Referer of a chapter request (line 304): the previous chapter when
\* chapter_num > 1, none (0) otherwise.
chapter_referer(chapter_num) == IF chapter_num > 1 THEN chapter_num - 1 ELSE 0

\* The call of download_chapter (line 411) up to its request (lines 300-306).
download_chapter_request ==
    /\ pc = "call_download"
    /\ sr' = safe_request_entry("chapter", current_chapter,
                                chapter_referer(current_chapter),
                                CHAPTER_MAX_RETRIES, CHAPTER_INITIAL_DELAY)
    /\ run_log' = [run_log EXCEPT !.downloads = @ + 1,
                      !.late_downloads = IF should_stop THEN @ + 1 ELSE @]
    /\ pc' = "safe_request"
    /\ UNCHANGED <<start_chapter, max_chapters, should_stop, metadata, book,
                   chapter_count, current_chapter, output_file, temp_file>>
    /\ UNCHANGED content

\* Variant of download_chapter_result without the test for the marker.
download_chapter_result_no_marker(result, page) ==
    IF result = "None" THEN "None"
    ELSE IF page = "no_txt" THEN "None"
    ELSE IF page = "txt_no_article" THEN "AttributeError"
    ELSE "data"

\* What download_chapter makes of the answer (lines 307-336): "None",
\* "data", or "AttributeError" when the page has the text container but
\* soup.find('div', id='article') is None (line 314).
download_chapter_result(result, page) ==
    IF result = "None" THEN "None"
    ELSE IF page = "no_txt" THEN "None"
    ELSE IF page = "txt_no_article" THEN "AttributeError"
    ELSE IF page = "marker" THEN "None"
    ELSE "data"

\* Variant of download_chapter_parse for a loop without try/finally: the
\* exception leaves run() at once.
download_chapter_parse_no_finally ==
    /\ pc = "chapter_parse"
    /\ LET r == download_chapter_result(sr.result, sr.page) IN
         CASE r = "data" ->
                /\ pc' = "append_chapter"
                /\ UNCHANGED run_log
           [] r = "None" ->
                /\ pc' = "final_save"
                /\ run_log' = [run_log EXCEPT !.exit_path = "none_returned",
                      !.none_cause = IF sr.result = "None" THEN "retries"
                                     ELSE sr.page]
           [] r = "AttributeError" ->
                /\ pc' = "raised"
                /\ run_log' = [run_log EXCEPT !.exit_path = "exception",
                                              !.raising = TRUE]
    /\ sr' = NoCall
    /\ UNCHANGED <<start_chapter, max_chapters, should_stop, metadata, book,
                   chapter_count, current_chapter, output_file, temp_file>>
    /\ UNCHANGED content

\* The rest of download_chapter and the test of run() on its result (lines
\* 412-414); an exception leaves the try block for the finally block.
download_chapter_parse ==
    /\ pc = "chapter_parse"
    /\ LET r == download_chapter_result(sr.result, sr.page) IN
         CASE r = "data" ->
                /\ pc' = "append_chapter"
                /\ UNCHANGED run_log
           [] r = "None" ->
                /\ pc' = "final_save"
                /\ run_log' = [run_log EXCEPT !.exit_path = "none_returned",
                      !.none_cause = IF sr.result = "None" THEN "retries"
                                     ELSE sr.page]
           [] r = "AttributeError" ->
                /\ pc' = "final_save"
                /\ run_log' = [run_log EXCEPT !.exit_path = "exception",
                                              !.raising = TRUE]
    /\ sr' = NoCall
    /\ UNCHANGED <<start_chapter, max_chapters, should_stop, metadata, book,
                   chapter_count, current_chapter, output_file, temp_file>>
    /\ UNCHANGED content

\* Variant of book_append_chapter that forgets the table of contents.
book_append_chapter_no_toc(b, n) ==
    [b EXCEPT !.items = Append(@, Chapter(n)),
              !.spine = Append(@, Chapter(n))]

\* Lines 416-419: the chapter goes to the items, the table of contents and
\* the spine.
book_append_chapter(b, n) ==
    [b EXCEPT !.items = Append(@, Chapter(n)),
              !.toc = Append(@, Chapter(n)),
              !.spine = Append(@, Chapter(n))]

\* Variant of run_append_chapter that does not advance the cursor.
run_append_chapter_keeps_cursor ==
    /\ pc = "append_chapter"
    /\ book' = book_append_chapter(book, current_chapter)
    /\ chapter_count' = chapter_count + 1
    /\ pc' = "pace"
    /\ UNCHANGED <<start_chapter, max_chapters, should_stop, metadata, sr,
                   current_chapter, output_file, temp_file, run_log>>
    /\ UNCHANGED content

\* Lines 416-422: append the chapter, then advance both counters.
run_append_chapter ==
    /\ pc = "append_chapter"
    /\ book' = book_append_chapter(book, current_chapter)
    /\ chapter_count' = chapter_count + 1
    /\ current_chapter' = current_chapter + 1
    /\ pc' = "pace"
    /\ UNCHANGED <<start_chapter, max_chapters, should_stop, metadata, sr,
                   output_file, temp_file, run_log>>
    /\ UNCHANGED content

\* Variant of checkpoint_due that counts the chapters from zero.
checkpoint_due_zero_based(count) == (count + 1) % SAVE_INTERVAL = 0

\* Whether the loop checkpoints at this chapter count (line 426).
checkpoint_due(count) == count % SAVE_INTERVAL = 0

\* Lines 423-428: the pacing sleep and the periodic save_progress (lines
\* 356-363), whose failure is logged and ignored.
run_pace_checkpoint ==
    /\ pc = "pace"
    /\ IF checkpoint_due(chapter_count)
       THEN /\ \E w \in write_epub(temp_file, book) : temp_file' = w.file
            /\ run_log' = [run_log EXCEPT !.save_calls = @ + 1,
                              !.checkpoints = Append(@, chapter_count)]
       ELSE UNCHANGED <<temp_file, run_log>>
    /\ pc' = "loop_test"
    /\ UNCHANGED <<start_chapter, max_chapters, should_stop, metadata, book,
                   chapter_count, current_chapter, sr, output_file>>
    /\ UNCHANGED content

\* ------------------------------------------------------------ finalization
\* Line 430: save_progress at the start of the finally block.
run_final_save ==
    /\ pc = "final_save"
    /\ \E w \in write_epub(temp_file, book) : temp_file' = w.file
    /\ run_log' = [run_log EXCEPT !.save_calls = @ + 1,
                                  !.final_saves = @ + 1]
    /\ pc' = "finalize"
    /\ UNCHANGED <<start_chapter, max_chapters, should_stop, metadata, book,
                   chapter_count, current_chapter, sr, output_file>>
    /\ UNCHANGED content

\* finalize_epub, lines 369-372: the navigation items and the serialization.
finalize_epub_write ==
    /\ pc = "finalize"
    /\ LET b == [book EXCEPT !.items = @ \o <<Ncx, Nav>>] IN
         /\ book' = b
         /\ \E w \in write_epub(temp_file, b) :
              /\ temp_file' = w.file
              /\ IF w.raised
                 THEN /\ pc' = "epilogue"
                      /\ run_log' = [run_log EXCEPT
                            !.finalize_calls = @ + 1,
                            !.had_output = (output_file.state # "absent"),
                            !.finalize_result = "False",
                            !.finalize_failed_at = "write",
                            !.temp_at_return = w.file]
                 ELSE /\ pc' = "finalize_remove"
                      /\ run_log' = [run_log EXCEPT
                            !.finalize_calls = @ + 1,
                            !.had_output = (output_file.state # "absent")]
    /\ UNCHANGED <<start_chapter, max_chapters, should_stop, metadata,
                   chapter_count, current_chapter, sr, output_file>>
    /\ UNCHANGED content

\* finalize_epub, lines 375-376: an existing output file is removed first;
\* os.remove may raise.
finalize_epub_remove ==
    /\ pc = "finalize_remove"
    /\ IF output_file.state # "absent"
       THEN \/ /\ output_file' = Absent
               /\ pc' = "finalize_rename"
               /\ UNCHANGED run_log
            \/ /\ UNCHANGED output_file
               /\ pc' = "epilogue"
               /\ run_log' = [run_log EXCEPT !.finalize_result = "False",
                                             !.finalize_failed_at = "remove",
                                             !.temp_at_return = temp_file]
       ELSE /\ pc' = "finalize_rename"
            /\ UNCHANGED <<output_file, run_log>>
    /\ UNCHANGED <<start_chapter, max_chapters, should_stop, metadata, book,
                   chapter_count, current_chapter, sr, temp_file>>
    /\ UNCHANGED content

\* finalize_epub, lines 377-382: the rename, which may raise.
finalize_epub_rename ==
    /\ pc = "finalize_rename"
    /\ \/ /\ output_file' = temp_file
          /\ temp_file' = Absent
          /\ run_log' = [run_log EXCEPT !.finalize_result = "True",
                                        !.temp_at_return = Absent]
       \/ /\ UNCHANGED <<output_file, temp_file>>
          /\ run_log' = [run_log EXCEPT !.finalize_result = "False",
                                        !.finalize_failed_at = "rename",
                                        !.temp_at_return = temp_file]
    /\ pc' = "epilogue"
    /\ UNCHANGED <<start_chapter, max_chapters, should_stop, metadata, book,
                   chapter_count, current_chapter, sr>>
    /\ UNCHANGED content

\* Variant of run_epilogue that removes the temporary file on every path.
run_epilogue_always_removes ==
    /\ pc = "epilogue"
    /\ temp_file' = Absent
    /\ pc' = IF run_log.raising THEN "raised" ELSE "done"
    /\ UNCHANGED <<start_chapter, max_chapters, should_stop, metadata, book,
                   chapter_count, current_chapter, sr, output_file, run_log>>
    /\ UNCHANGED content

\* run() lines 432-442: on success a temporary file still present is
\* removed; then the finally block ends and a pending exception goes on.
run_epilogue ==
    /\ pc = "epilogue"
    /\ IF run_log.finalize_result = "True" /\ temp_file.state # "absent"
       THEN temp_file' = Absent
       ELSE UNCHANGED temp_file
    /\ pc' = IF run_log.raising THEN "raised" ELSE "done"
    /\ UNCHANGED <<start_chapter, max_chapters, should_stop, metadata, book,
                   chapter_count, current_chapter, sr, output_file, run_log>>
    /\ UNCHANGED content

Next ==
    \/ handle_exit_signal
    \/ fetch_metadata_request
    \/ fetch_metadata_parse
    \/ create_epub
    \/ add_cover_done
    \/ run_build_shell
    \/ safe_request_attempt
    \/ safe_request_backoff
    \/ safe_request_exhausted
    \/ run_loop_test
    \/ download_chapter_request
    \/ download_chapter_parse
    \/ run_append_chapter
    \/ run_pace_checkpoint
    \/ run_final_save
    \/ finalize_epub_write
    \/ finalize_epub_remove
    \/ finalize_epub_rename
    \/ run_epilogue

Spec == Init /\ [][Next]_vars

\* ------------------------------------------------- chapter body sanitation
\* Chapter bodies have at most MaxNodes elements below the text container.
MaxNodes == 3

\* BASE_URL (line 16) and the image sources of a raw body, as URL parts:
\* none (no src attribute), relative to the site, absolute elsewhere.
BASE_URL == <<"https:", "//freewebnovel.com">>
NoSrc == << >>
RelativeSrc == <<"/img/a.png">>
AbsoluteSrc == <<"https:", "//cdn.example", "/a.png">>

\* The kinds of element of a body: narrative text, an advertisement
\* container <div class="ad">, a script, an ins, and images.
NodeKinds ==
    {[name |-> "p", class |-> "", src |-> NoSrc],
     [name |-> "div", class |-> "ad", src |-> NoSrc],
     [name |-> "script", class |-> "", src |-> NoSrc],
     [name |-> "ins", class |-> "", src |-> NoSrc],
     [name |-> "img", class |-> "", src |-> NoSrc],
     [name |-> "img", class |-> "", src |-> RelativeSrc],
     [name |-> "img", class |-> "", src |-> AbsoluteSrc]}

\* The elements that can have children.
Containers == {"p", "div", "ins"}

\* A body is the sequence of its elements, each with the index of its parent
\* element (0: a child of the text container), parents first.
ParentFns(n) == {f \in [1..n -> 0..(n - 1)] : \A i \in 1..n : f[i] < i}

BodiesOfLen(n) ==
    {b \in {[i \in 1..n |-> [name |-> ks[i].name, class |-> ks[i].class,
                             src |-> ks[i].src, parent |-> ps[i]]] :
              ks \in [1..n -> NodeKinds], ps \in ParentFns(n)} :
        \A i \in 1..n :
            b[i].parent > 0 => b[b[i].parent].name \in Containers}

Bodies == UNION {BodiesOfLen(n) : n \in 0..MaxNodes}

\* Variant of urljoin that always puts the base in front.
urljoin_concatenates(base, url) == base \o url

\* urljoin (lines 9, 294): a URL with a scheme is kept, any other is
\* resolved against the base.
urljoin(base, url) == IF Head(url) = "https:" THEN url ELSE base \o url

\* content.find_all(['script', 'ins', 'div.ad']) (line 289): the elements
\* whose tag NAME is one of the three strings.
find_all_matches(node) == node.name \in {"script", "ins", "div.ad"}

\* element.decompose() (line 290) destroys the element and all below it.
RECURSIVE Decomposed(_, _)
Decomposed(nodes, i) ==
    \/ find_all_matches(nodes[i])
    \/ nodes[i].parent > 0 /\ Decomposed(nodes, nodes[i].parent)

\* _process_chapter_content (lines 286-296): decompose the matches, then
\* rewrite the src of every img that has one.
process_chapter_content_result(nodes) ==
    LET kept == {i \in 1..Len(nodes) : ~Decomposed(nodes, i)}
        NewIndex(i) == Cardinality({j \in kept : j <= i})
        OldIndex(k) == CHOOSE i \in kept : NewIndex(i) = k
        Fix(node) ==
            [node EXCEPT
               !.parent = IF @ = 0 THEN 0 ELSE NewIndex(@),
               !.src = IF node.name = "img" /\ @ # NoSrc
                       THEN urljoin(BASE_URL, @) ELSE @]
    IN [k \in 1..Cardinality(kept) |-> Fix(nodes[OldIndex(k)])]

\* The first call of _process_chapter_content on a body (line 319).
process_chapter_content ==
    /\ pc = "process_chapter_content"
    /\ content.stage = "raw"
    /\ LET r == process_chapter_content_result(content.nodes) IN
         content' = [content EXCEPT !.nodes = r, !.once = r,
                                    !.stage = "once"]
    /\ UNCHANGED <<pc, start_chapter, max_chapters, should_stop, metadata,
                   book, chapter_count, current_chapter, sr, output_file,
                   temp_file, run_log>>

\* A second call of _process_chapter_content on the processed body.
process_chapter_content_again ==
    /\ pc = "process_chapter_content"
    /\ content.stage = "once"
    /\ content' = [content EXCEPT
                      !.nodes = process_chapter_content_result(@),
                      !.stage = "twice"]
    /\ UNCHANGED <<pc, start_chapter, max_chapters, should_stop, metadata,
                   book, chapter_count, current_chapter, sr, output_file,
                   temp_file, run_log>>

\* Any chapter body, about to be processed.
InitSanitize ==
    /\ pc = "process_chapter_content"
    /\ start_chapter = 1
    /\ max_chapters = 0
    /\ should_stop = FALSE
    /\ metadata = EmptyMetadata
    /\ book = EmptyBook
    /\ chapter_count = 0
    /\ current_chapter = 0
    /\ sr = NoCall
    /\ output_file = Absent
    /\ temp_file = Absent
    /\ run_log = [finalize_calls |-> 0, finalize_result |-> "none",
                  finalize_failed_at |-> "none", save_calls |-> 0,
                  exit_path |-> "none", raising |-> FALSE,
                  had_output |-> FALSE, downloads |-> 0,
                  late_downloads |-> 0, temp_at_return |-> Absent,
                  output_at_start |-> Absent, none_cause |-> "none",
                  checkpoints |-> << >>, final_saves |-> 0]
    /\ \E b \in Bodies :
         content = [nodes |-> b, stage |-> "raw", once |-> << >>, raw |-> b]

NextSanitize ==
    \/ process_chapter_content
    \/ process_chapter_content_again

SpecSanitize == InitSanitize /\ [][NextSanitize]_vars

\* ================================================================ claims
Terminated == pc \in {"aborted", "done", "raised"}
ShellBuilt == book.spine # << >>
InFinalization ==
    pc \in {"finalize_remove", "finalize_rename", "epilogue", "done", "raised"}

\* C1: a run whose metadata fetch succeeded invokes finalize_epub exactly
\* once, and only after the chapter loop was left (by the stop flag, the
\* cap, a None chapter or an exception); a run whose metadata fetch returned
\* None invokes it zero times.
C1_FinalizeExactlyOnce ==
    /\ run_log.finalize_calls <= 1
    /\ (run_log.finalize_calls = 1 =>
            run_log.exit_path \in {"stop", "cap", "none_returned", "exception"})
    /\ (Terminated /\ metadata.fetched => run_log.finalize_calls = 1)
    /\ (Terminated /\ ~metadata.fetched => run_log.finalize_calls = 0)

\* C1 witness: a run that left the loop by an exception and finalized once.
C1_Witness ==
    /\ pc = "raised"
    /\ run_log.exit_path = "exception"
    /\ run_log.finalize_calls = 1

\* C2: one safe_request call with maximum attempts M issues at most M
\* requests, and returns None right after the M-th failed attempt.
C2_AtMostMaxRetriesRequests ==
    /\ sr.requests <= sr.max_retries
    /\ (sr.result = "None" => sr.requests = sr.max_retries)

\* C3: safe_request returns the response of the first attempt that ends in
\* 200 or 404, with no request and no sleep after it; an attempt ending in
\* another status or in a transport failure never returns a response.
C3_ReturnsFirstTerminalStatus ==
    /\ (sr.result = "response" =>
            /\ sr.last_status \in {"200", "404"}
            /\ sr.last_event = "request"
            /\ sr.requests = sr.attempt)
    /\ (sr.last_status \in Statuses \ {"200", "404"} =>
            sr.result # "response")
    /\ (pc \in {"safe_request", "safe_request_backoff"} =>
            /\ sr.last_status \notin {"200", "404"}
            /\ sr.result = "pending")

\* C3 witness: a 404 returned on a later attempt, after a failed one.
C3_Witness ==
    /\ sr.result = "response"
    /\ sr.last_status = "404"
    /\ sr.requests >= 2
    /\ sr.sleeps >= 1

\* C4: a chapter request answered with 404 ends the content whatever the
\* page body is: download_chapter returns None, the chapter is not appended,
\* the cursor stays and the run goes on to finalization without an error.
C4_NotFoundEndsContent ==
    [][(/\ pc = "chapter_parse"
        /\ sr.result = "response"
        /\ sr.last_status = "404"
        /\ pc' # pc)
          => /\ pc' = "final_save"
             /\ run_log'.exit_path = "none_returned"
             /\ ~run_log'.raising]_vars

\* C5: run() never ends by raising an exception.
C5_RunNeverRaises == pc # "raised" /\ ~run_log.raising

\* C6: when a complete file was at the output path before finalize_epub
\* began, the output path holds that file or the new complete document at
\* every point of the finalization and after it.
C6_OutputOldOrNew ==
    (run_log.had_output /\ InFinalization) =>
        \/ output_file = OldFile
        \/ /\ output_file.state = "doc"
           /\ output_file.chapters = ChapterNums(book.spine)

\* C7 (as stated): whenever finalize_epub returned False, the temporary
\* file exists at the end of run() and holds the document with every chapter.
C7_TempHoldsAllOnFailure ==
    (pc \in {"done", "raised"} /\ run_log.finalize_result = "False") =>
        /\ temp_file.state = "doc"
        /\ temp_file.chapters = ChapterNums(book.spine)

\* C7 (amended): whenever finalize_epub returned False, run() ends with the
\* temporary file exactly as finalize_epub left it; when the failing step
\* was the removal of the old output or the rename, that file is the
\* serialized document with every chapter appended in the run.
C7_TempKeptOnFailure ==
    (pc \in {"done", "raised"} /\ run_log.finalize_result = "False") =>
        /\ temp_file = run_log.temp_at_return
        /\ (run_log.finalize_failed_at \in {"remove", "rename"} =>
                /\ temp_file.state = "doc"
                /\ temp_file.nav
                /\ temp_file.chapters = ChapterNums(book.spine))

\* C7 witness: the rename failed in a run that had appended chapters.
C7_Witness ==
    /\ pc = "done"
    /\ run_log.finalize_result = "False"
    /\ run_log.finalize_failed_at = "rename"
    /\ Len(temp_file.chapters) >= 1

\* The three lists of the book hold the same chapters.
ChaptersWhole ==
    /\ ChapterNums(book.items) = ChapterNums(book.spine)
    /\ ChapterNums(book.toc) = ChapterNums(book.spine)

\* C8 (as stated): no download_chapter call begins once the stop flag is
\* set; chapters are appended whole; the run goes on to finalization.
C8_NoDownloadAfterStop ==
    /\ run_log.late_downloads = 0
    /\ ChaptersWhole
    /\ (Terminated /\ should_stop /\ metadata.fetched =>
            run_log.finalize_calls = 1)

\* C8 (amended): the stop flag is seen at the next evaluation of the loop
\* condition, which then leaves the loop for the finally block; at most one
\* download_chapter call begins after the flag was set (the one whose loop
\* test had already passed); chapters are appended whole; the run goes on
\* to finalization.
C8_StopSeenAtNextLoopTest ==
    /\ [](/\ run_log.late_downloads <= 1
          /\ ChaptersWhole
          /\ (Terminated /\ should_stop /\ metadata.fetched =>
                  run_log.finalize_calls = 1))
    /\ [][pc = "loop_test" /\ should_stop /\ pc' # pc
             => pc' = "final_save"]_vars

\* C8 witness: the signal came between the loop test and the call; the
\* chapter in flight was appended and the run finalized.
C8_Witness ==
    /\ pc = "done"
    /\ should_stop
    /\ run_log.late_downloads = 1
    /\ run_log.exit_path = "stop"
    /\ chapter_count >= 1
    /\ run_log.finalize_calls = 1

\* The chapter numbers start, start+1, ..., start+count-1.
Consecutive(start, count) == [i \in 1..count |-> start + i - 1]

\* C9: once the loop is set up, the document holds exactly the chapters
\* start_chapter .. start_chapter+chapter_count-1 in that order, the cursor
\* is start_chapter+chapter_count, and the cursor moves only forward by one,
\* in a step that appends the fetched chapter.
C9_ChaptersConsecutive ==
    /\ [](ShellBuilt =>
             /\ ChapterNums(book.spine)
                  = Consecutive(start_chapter, chapter_count)
             /\ ChapterNums(book.toc) = ChapterNums(book.spine)
             /\ ChapterNums(book.items) = ChapterNums(book.spine)
             /\ current_chapter = start_chapter + chapter_count)
    /\ [][ShellBuilt /\ current_chapter' # current_chapter =>
             /\ current_chapter' = current_chapter + 1
             /\ pc = "append_chapter"
             /\ book'.spine = Append(book.spine, Chapter(current_chapter))]_vars

\* C9 witness: a finished run from chapter 2 with at least two chapters.
C9_Witness ==
    /\ pc = "done"
    /\ start_chapter = 2
    /\ chapter_count >= 2
    /\ current_chapter = 2 + chapter_count

\* C10 (as stated): the description page is the first entry of the table of
\* contents and of the spine, the chapters follow in both, and the table of
\* contents has 1 + chapter_count entries.
C10_DescriptionFirstInBoth ==
    ShellBuilt =>
        /\ Head(book.toc) = Desc
        /\ Head(book.spine) = Desc
        /\ Tail(book.toc) = Tail(book.spine)
        /\ Len(book.toc) = 1 + chapter_count

\* C10 (amended): the description page is the first entry of the table of
\* contents; the spine starts with the 'nav' entry and the description page
\* is its second entry; after these the chapter entries follow in both lists
\* in the order they were appended, and the table of contents has exactly
\* 1 + chapter_count entries.
C10_DescriptionFirstAfterNav ==
    ShellBuilt =>
        /\ Head(book.toc) = Desc
        /\ Head(book.spine) = Nav
        /\ Tail(book.spine) = book.toc
        /\ \A i \in 1..chapter_count :
              book.toc[i + 1] = Chapter(start_chapter + i - 1)
        /\ Len(book.toc) = 1 + chapter_count
        /\ Len(book.spine) = 2 + chapter_count

\* C10 witness: three chapters and no cap give a table of contents of four.
C10_Witness ==
    /\ pc = "done"
    /\ max_chapters = 0
    /\ chapter_count = 3
    /\ Len(book.toc) = 4
    /\ Len(book.spine) = 5

\* C11: the loop test looks at the stop flag and at the cap before any
\* fetch: no chapter is requested after a test that saw the flag set or a
\* positive cap reached, the chapters never exceed a positive max_chapters,
\* and with max_chapters = 0 the loop ends only by the stop flag or by
\* download_chapter returning None.
C11_LoopEndsByStopCapOrNone ==
    /\ [](/\ (max_chapters > 0 => chapter_count <= max_chapters)
          /\ (max_chapters = 0 /\ run_log.exit_path # "none" =>
                  run_log.exit_path \in {"stop", "none_returned"}))
    /\ [][(/\ pc = "loop_test"
           /\ should_stop \/ (max_chapters > 0 /\ chapter_count >= max_chapters)
           /\ pc' # pc)
             => /\ pc' = "final_save"
                /\ run_log'.downloads = run_log.downloads]_vars

\* The chapter counts at which a run of c chapters checkpoints.
CheckpointCounts(c) ==
    [i \in 1..(c \div SAVE_INTERVAL) |-> i * SAVE_INTERVAL]

C13_AbortLeavesNoTrace ==
    /\ (pc = "aborted" => ~metadata.fetched)
    /\ (~metadata.fetched =>
            /\ run_log.downloads = 0
            /\ run_log.save_calls = 0
            /\ run_log.finalize_calls = 0
            /\ temp_file = Absent
            /\ output_file = run_log.output_at_start)

\* C13 witness: an aborted run that found a file at the output path.
C13_Witness ==
    /\ pc = "aborted"
    /\ output_file = OldFile
    /\ temp_file = Absent

\* C14: a page of chapter k without the text container, or with the
\* missing-content marker, makes download_chapter return None: the loop
\* stops at k without another request, the document keeps the chapters
\* start_chapter..k-1, no later chapter is requested, and finalization runs.
C14_NoContentStopsLoop ==
    /\ [](run_log.none_cause \in {"no_txt", "marker"} =>
             /\ pc \in {"final_save", "finalize", "finalize_remove",
                        "finalize_rename", "epilogue", "done"}
             /\ ~run_log.raising
             /\ chapter_count = current_chapter - start_chapter
             /\ ChapterNums(book.spine)
                  = Consecutive(start_chapter, chapter_count)
             /\ run_log.downloads = chapter_count + 1
             /\ (pc = "done" => run_log.finalize_calls = 1))
    /\ [][(/\ pc = "chapter_parse"
           /\ sr.result = "response"
           /\ sr.page \in {"no_txt", "marker"}
           /\ pc' # pc)
             => /\ pc' = "final_save"
                /\ sr.chapter = current_chapter
                /\ current_chapter' = current_chapter
                /\ book' = book
                /\ run_log'.downloads = run_log.downloads]_vars

\* C14 witness: chapter 5 carries the marker; chapters 1-4 are kept and the
\* finalization succeeds.
C14_Witness ==
    /\ pc = "done"
    /\ run_log.none_cause = "marker"
    /\ start_chapter = 1
    /\ current_chapter = 5
    /\ run_log.finalize_result = "True"
    /\ output_file.state = "doc"
    /\ output_file.chapters = <<1, 2, 3, 4>>

\* C15 (as stated): the request for the first chapter of the run carries no
\* Referer, and the request for every later chapter N carries the URL of
\* chapter N-1.
C15_NoRefererOnFirstOfRun ==
    sr.caller = "chapter" =>
        /\ (sr.chapter = start_chapter => sr.referer = 0)
        /\ (sr.chapter > start_chapter => sr.referer = sr.chapter - 1)

\* C15 (amended): only the request for chapter 1 carries no Referer; the
\* request for every chapter N > 1 carries the URL of chapter N-1, also when
\* N is the first chapter of a run that starts after chapter 1.
C15_NoRefererOnChapterOne ==
    sr.caller = "chapter" =>
        /\ sr.chapter >= start_chapter
        /\ (sr.chapter = 1 => sr.referer = 0)
        /\ (sr.chapter > 1 => sr.referer = sr.chapter - 1)

\* C15 witness: a run from chapter 2 whose first request names chapter 1.
C15_Witness ==
    /\ sr.caller = "chapter"
    /\ start_chapter = 2
    /\ sr.chapter = 2
    /\ run_log.downloads = 1
    /\ sr.requests >= 1
    /\ sr.referer = 1

\* C16: the title given to the book is the page's title, or the title
\* derived from the slug when the overview page has no title element; it is
\* never None.
C16_TitleFallsBackToSlug ==
    book.title # "unset" =>
        /\ book.title # "None"
        /\ book.title = (IF metadata.title = "page" THEN "page" ELSE "slug")

\* C17: within one safe_request call every request after the first comes
\* right after a backoff sleep, one sleep between two consecutive attempts.
C17_SleepBeforeEveryRetry ==
    [][(sr'.requests = sr.requests + 1 /\ sr.requests >= 1)
          => /\ sr.last_event = "sleep"
             /\ sr.sleeps = sr.requests]_vars

\* base to the power exp.
RECURSIVE Pow(_, _)
Pow(base, exp) == IF exp = 0 THEN 1 ELSE base * Pow(base, exp - 1)

\* C18: the sleep after failed attempt k lasts d + j with
\* d = initial_delay * backoff_factor^(k-1) and 0 <= j < 0.1 * d, whatever
\* the failures were (last_sleep is in tenths of a second, so j < d).
C18_BackoffDelay ==
    sr.last_event = "sleep" =>
        LET k == sr.attempt
            d == sr.initial_delay * Pow(BACKOFF_FACTOR, k - 1)
        IN /\ sr.sleeps = k
           /\ sr.last_status \in Statuses \ {"200", "404"}
           /\ 10 * d <= sr.last_sleep
           /\ sr.last_sleep < 10 * d + d

\* C18 witness: the third attempt of a chapter request timed out; the sleep
\* is 40 s plus the largest jitter.
C18_Witness ==
    /\ sr.last_event = "sleep"
    /\ sr.caller = "chapter"
    /\ sr.attempt = 3
    /\ sr.last_status = "exc"
    /\ sr.last_sleep = 439

\* An advertisement element: a script, an ins, or a div of class ad.
IsAd(node) ==
    \/ node.name \in {"script", "ins"}
    \/ node.name = "div" /\ node.class = "ad"

\* The element is an advertisement element or lies inside one.
RECURSIVE InsideAd(_, _)
InsideAd(nodes, i) ==
    \/ IsAd(nodes[i])
    \/ nodes[i].parent > 0 /\ InsideAd(nodes, nodes[i].parent)

\* C19: a processed body holds no script, no ins and no div of class ad at
\* any depth, every img source is absolute, and every element that is not
\* such an element (nor inside one) is still there.
C19_SanitizedBody ==
    content.stage \in {"once", "twice"} =>
        /\ \A i \in 1..Len(content.nodes) :
              /\ ~IsAd(content.nodes[i])
              /\ (content.nodes[i].name = "img"
                      /\ content.nodes[i].src # NoSrc =>
                    Head(content.nodes[i].src) = "https:")
        /\ Len(content.nodes) =
              Cardinality({i \in 1..Len(content.raw) :
                              ~InsideAd(content.raw, i)})

\* C20: processing a processed body again changes nothing, neither the
\* elements nor any image source.
C20_SanitizeIdempotent ==
    content.stage = "twice" => content.nodes = content.once

\* C20 witness: a body that lost an element and had a relative image source
\* rewritten in the first pass, processed twice.
C20_Witness ==
    /\ content.stage = "twice"
    /\ Len(content.nodes) < Len(content.raw)
    /\ \E i \in 1..Len(content.nodes) :
          content.nodes[i].src = BASE_URL \o RelativeSrc
    /\ \E i \in 1..Len(content.nodes) :
          content.nodes[i].src = AbsoluteSrc

====
